---- MODULE Spec2Model ----
(***************************************************************************)
(* MultiProviderLLMClient (src/app/core/llm_client_v2.py): the provider    *)
(* registry, the failover loop of chat(), the background health monitor    *)
(* and the pending-task store with its retry sweep, as an asyncio program: *)
(* one coroutine runs at a time and control changes hands only at an       *)
(* await that suspends (the HTTP call, asyncio.sleep).                     *)
(***************************************************************************)
EXTENDS Integers, Sequences, FiniteSets, TLC

VARIABLES
    settings,               \* the API keys that are set (app.core.config.settings)
    providers,              \* self.providers: the Provider objects, in list order
    health_monitor_started, \* self._health_monitor_started
    health_loops,           \* the health_check_loop tasks asyncio.create_task has made
    monitor,                \* the health_check_loop task: where it is suspended
    tasks,                  \* every PendingTask object ever built (index = identity)
    pending_tasks,          \* self.pending_tasks: dict in insertion order, key -> object
    now,                    \* the reading datetime.now() gives
    running,                \* the coroutine that holds the event loop (0: none)
    chat,                   \* per coroutine: the frame of its chat() call
    sweep,                  \* per coroutine: the frame of its retry_pending_tasks() call
    recorded,               \* per provider: failures recorded since error_count was last set to 0
    streak,                 \* per provider: failed probes in a row since it was Healthy with count 0
    transcription,          \* the frame of the transcribe_audio() call
    payload                 \* the body _make_request builds, for one request at a time

vars == <<settings, providers, health_monitor_started, health_loops, monitor, tasks,
          pending_tasks, now, running, chat, sweep, recorded, streak,
          transcription, payload>>

\* What chat(), the monitor and the sweep never write
fixed == <<settings, transcription, payload>>

----------------------------------------------------------------------------
(* Bounds of the model *)

NumCoros == 2
MaxErrorCount == 4
MaxTasks == 3
MaxSweepTasks == 2
MaxConcTasks == 1
NumContents == 1
MaxMessages == 2

(* Constants of the program *)

max_retries == 3
max_attempts == 3
retry_delay == 2
ErrorThreshold == 3

Coros == 1..NumCoros
Contents == 1..NumContents
ApiKeys == {"OPENROUTER_API_KEY", "ANTHROPIC_API_KEY", "OPENAI_API_KEY"}
NoTask == <<>>
Indices(s) == [i \in 1..Len(s) |-> i]

----------------------------------------------------------------------------
(* ProviderRegistry *)

\* The models= lists of _setup_providers
DeclaredModels(name) ==
    CASE name = "groq" ->
           <<"llama-3.1-8b-instant", "mixtral-8x7b-32768", "gemma-7b-it", "whisper-large-v3">>
      [] name = "openrouter" ->
           <<"mistralai/mistral-7b-instruct", "anthropic/claude-3-sonnet",
             "openai/gpt-3.5-turbo">>
      [] name = "anthropic" -> <<"claude-3-sonnet-20240229", "claude-3-haiku-20240307">>
      [] name = "openai" -> <<"gpt-3.5-turbo", "gpt-4">>
      [] OTHER -> <<>>

Provider(name, priority) ==
    [name |-> name, models |-> DeclaredModels(name), priority |-> priority,
     status |-> "healthy", last_error |-> "None", error_count |-> 0]

RECURSIVE InsertByPriority(_, _, _)
InsertByPriority(i, refs, provs) ==
    IF refs = <<>> THEN <<i>>
    ELSE IF provs[i].priority < provs[Head(refs)].priority
         THEN <<i>> \o refs
         ELSE <<Head(refs)>> \o InsertByPriority(i, Tail(refs), provs)

RECURSIVE SortByPriority(_, _)
\* sorted(refs, key=lambda p: p.priority): stable, ascending
SortByPriority(refs, provs) ==
    IF refs = <<>> THEN <<>>
    ELSE InsertByPriority(refs[Len(refs)],
                          SortByPriority(SubSeq(refs, 1, Len(refs) - 1), provs),
                          provs)

\* The appends of _setup_providers, in the order the code makes them.
ConfiguredProviders(keys) ==
    (IF "OPENROUTER_API_KEY" \in keys THEN <<Provider("groq", 1)>> ELSE <<>>)
    \o (IF "OPENROUTER_API_KEY" \in keys THEN <<Provider("openrouter", 2)>> ELSE <<>>)
    \o (IF "ANTHROPIC_API_KEY" \in keys THEN <<Provider("anthropic", 3)>> ELSE <<>>)
    \o (IF "OPENAI_API_KEY" \in keys THEN <<Provider("openai", 4)>> ELSE <<>>)

_setup_providers(keys) ==
    LET appended == ConfiguredProviders(keys)
        order == SortByPriority(Indices(appended), appended)
    IN [k \in 1..Len(appended) |-> appended[order[k]]]

\* Three listings that are not the code's: one that lists the Down providers
\* too, one that leaves Degraded providers out as well, one that lists by
\* descending priority
HealthyAll(provs) == SortByPriority(Indices(provs), provs)

HealthyOnly(provs) ==
    SortByPriority(SelectSeq(Indices(provs), LAMBDA i : provs[i].status = "healthy"), provs)

RECURSIVE Reversed(_)
Reversed(s) == IF s = <<>> THEN <<>> ELSE Append(Reversed(Tail(s)), Head(s))

HealthyDescending(provs) ==
    Reversed(SortByPriority(SelectSeq(Indices(provs), LAMBDA i : provs[i].status # "down"),
                            provs))

_get_healthy_providers(provs) ==
    SortByPriority(SelectSeq(Indices(provs), LAMBDA i : provs[i].status # "down"), provs)

\* A recovery that is not the code's: the statuses reset, the error counts kept
ForceRecoverStatusOnly(provs) ==
    [i \in DOMAIN provs |-> [provs[i] EXCEPT !.status = "healthy"]]

\* A recovery that is not the code's: the registry is put in the opposite order
ForceRecoverReordered(provs) ==
    [i \in DOMAIN provs |->
        [provs[Len(provs) + 1 - i] EXCEPT !.status = "healthy", !.error_count = 0]]

\* chat(), lines 277-279: every provider back to Healthy with error count 0
ForceRecoverAll(provs) ==
    [i \in DOMAIN provs |-> [provs[i] EXCEPT !.status = "healthy", !.error_count = 0]]

\* A success that is not the code's: the status reset, the error count kept
RecordSuccessStatusOnly(p) == [p EXCEPT !.status = "healthy"]

\* chat(), lines 304-307: the serving provider after a successful attempt
RecordSuccess(p) == [p EXCEPT !.status = "healthy", !.error_count = 0]

\* A recording that is not the code's: the demotion the monitor makes
RecordFailureDown(p) ==
    LET n == p.error_count + 1
    IN [p EXCEPT !.error_count = n,
                 !.status = IF n >= ErrorThreshold THEN "down" ELSE p.status]

\* A recording that is not the code's: the count written as 1 rather than raised
\* by 1, which loses every failure recorded since the last reset
RecordFailureStale(p) ==
    [p EXCEPT !.error_count = 1,
              !.status = IF 1 >= ErrorThreshold THEN "degraded" ELSE p.status]

\* A recording that is not the code's: one failure counted for every attempt
RecordFailurePerAttempt(p) ==
    LET n == p.error_count + max_attempts
    IN [p EXCEPT !.error_count = n,
                 !.status = IF n >= ErrorThreshold THEN "degraded" ELSE p.status]

\* chat(), lines 327-329: the provider after its last failed attempt
RecordFailureInline(p) ==
    LET n == p.error_count + 1
    IN [p EXCEPT !.error_count = n,
                 !.status = IF n >= ErrorThreshold THEN "degraded" ELSE p.status]

\* A probe that is not the code's: the demotion one failure late
ProbeResultLate(p, outcome) ==
    LET n == p.error_count + 1
        demoted == IF n > ErrorThreshold THEN "down" ELSE p.status
    IN CASE outcome = "200" ->
              [p EXCEPT !.status = "healthy", !.error_count = 0, !.last_error = "None"]
         [] outcome = "non200" ->
              [p EXCEPT !.error_count = n, !.status = demoted]
         [] OTHER ->
              [p EXCEPT !.error_count = n, !.status = demoted, !.last_error = "probe_exception"]

\* _check_providers_health, lines 191-206: the provider after one probe
ProbeResult(p, outcome) ==
    LET n == p.error_count + 1
        demoted == IF n >= ErrorThreshold THEN "down" ELSE p.status
    IN CASE outcome = "200" ->
              [p EXCEPT !.status = "healthy", !.error_count = 0, !.last_error = "None"]
         [] outcome = "non200" ->
              [p EXCEPT !.error_count = n, !.status = demoted]
         [] OTHER ->
              [p EXCEPT !.error_count = n, !.status = demoted, !.last_error = "probe_exception"]

----------------------------------------------------------------------------
(* PendingTaskStore *)

\* hashlib.md5(f"{datetime.now().isoformat()}{messages[0].content[:50]}")[:12]:
\* a function of the clock reading and the first message's prefix, nothing else.
TaskId(t, content) == <<t, content>>

NewTask(t, content) ==
    [id |-> TaskId(t, content), content |-> content, created_at |-> t,
     attempts |-> 1, last_error |-> NoTask]

HasKey(dict, key) == \E k \in DOMAIN dict : dict[k].key = key

\* self.pending_tasks[task_id] = obj: a new key goes last, a known key keeps its place
DictSet(dict, key, obj) ==
    IF HasKey(dict, key)
    THEN [k \in DOMAIN dict |-> IF dict[k].key = key THEN [key |-> key, obj |-> obj] ELSE dict[k]]
    ELSE Append(dict, [key |-> key, obj |-> obj])

\* del self.pending_tasks[task_id], the key being there
DictDel(dict, key) == SelectSeq(dict, LAMBDA e : e.key # key)

Keys(dict) == {dict[k].key : k \in DOMAIN dict}

\* Whether some object carries the current clock reading.
Stamped == \E o \in DOMAIN tasks : tasks[o].created_at = now

----------------------------------------------------------------------------
(* Frames *)

IdleChat ==
    [pc |-> "idle", nested |-> FALSE, content |-> 0, cands |-> <<>>, pi |-> 0,
     attempt |-> 0, calls |-> <<>>, result |-> "none", provider |-> "None",
     task_id |-> NoTask, delay |-> 0, last_error |-> "None",
     \* what the call saw and did, kept for the properties below
     forced |-> FALSE, down_at_call |-> {}, all_healthy |-> FALSE, failures |-> <<>>]

IdleSweep ==
    [pc |-> "idle", snap |-> <<>>, i |-> 0, results |-> <<>>, to_remove |-> <<>>,
     \* what each re-submission came to, kept for the properties below
     submitted |-> <<>>]

IdleMonitor == [pc |-> "off", idx |-> 0]

IdleTranscription == [pc |-> "idle", provider |-> "None", model |-> "None", error |-> "None"]

NoPayload == [provider |-> "None", alias |-> "None", model |-> "None",
              messages |-> <<>>, formatted |-> <<>>]

CoroIdle(c) ==
    /\ chat[c].pc = "idle"
    /\ sweep[c].pc = "idle"

Init ==
    /\ settings \in SUBSET ApiKeys
    /\ providers = _setup_providers(settings)
    /\ health_monitor_started = FALSE
    /\ health_loops = 0
    /\ monitor = IdleMonitor
    /\ tasks = <<>>
    /\ pending_tasks = <<>>
    /\ now = 0
    /\ running = 0
    /\ chat = [c \in Coros |-> IdleChat]
    /\ sweep = [c \in Coros |-> IdleSweep]
    /\ recorded = [i \in DOMAIN providers |-> 0]
    /\ streak = [i \in DOMAIN providers |-> 0]
    /\ transcription = IdleTranscription
    /\ payload = NoPayload

----------------------------------------------------------------------------
(* Clock *)

\* The next reading of the clock once time has passed.  Readings are only ever
\* compared with the ones PendingTask objects carry, so a reading no object
\* carries stands for every later one as well.
Later(t) == IF Stamped THEN t + 1 ELSE t

Tick ==
    /\ Stamped
    /\ now' = now + 1
    /\ UNCHANGED <<fixed, providers, health_monitor_started, health_loops, monitor, tasks,
                   pending_tasks, running, chat, sweep, recorded, streak>>

----------------------------------------------------------------------------
(* chat() *)

\* _store_pending_task: the heap and the dict after the store, and the id returned
StoredTasks(content) == Append(tasks, NewTask(now, content))
StoredPending(content) == DictSet(pending_tasks, TaskId(now, content), Len(tasks) + 1)

\* Lines 332-339: all providers failed; store the task and raise.  cap bounds the
\* PendingTask objects a run builds.
Exhausted(c, frame, cap) ==
    /\ Len(tasks) < cap
    /\ tasks' = StoredTasks(frame.content)
    /\ pending_tasks' = StoredPending(frame.content)
    /\ chat' = [chat EXCEPT ![c] = [frame EXCEPT !.pc = "returned",
                                                !.result = "exhausted",
                                                !.task_id = TaskId(now, frame.content)]]
    /\ running' = c

\* A start that is not the code's: the flag is not looked at
StartMonitorUnflagged(flag, loops) == [flag |-> TRUE, loops |-> loops + 1]

\* Lines 148-166, called from a coroutine, so with an event loop running:
\* nothing if the flag is set, else a health_check_loop task and the flag.
\* There is no await between the test and the assignment.
_start_health_monitor(flag, loops) ==
    IF flag THEN [flag |-> flag, loops |-> loops]
    ELSE [flag |-> TRUE, loops |-> loops + 1]

\* Lines 272-280: the candidates of one call, and the registry after forced recovery
Candidates(provs) ==
    LET healthy == _get_healthy_providers(provs)
    IN IF healthy = <<>> THEN Indices(provs) ELSE healthy

AfterRecovery(provs) ==
    IF _get_healthy_providers(provs) = <<>> THEN ForceRecoverAll(provs) ELSE provs

\* Lines 266-299: chat() from its call to the first await of _make_request
ChatEnter(c, content, nested, cap) ==
    LET forced == _get_healthy_providers(providers) = <<>>
        cands == Candidates(providers)
        frame == [IdleChat EXCEPT
                    !.nested = nested, !.content = content, !.cands = cands,
                    !.forced = forced,
                    !.down_at_call = {i \in DOMAIN providers : providers[i].status = "down"},
                    !.all_healthy = \A i \in DOMAIN providers : providers[i].status = "healthy"]
        started == _start_health_monitor(health_monitor_started, health_loops)
    IN /\ health_monitor_started' = started.flag
       /\ health_loops' = started.loops
       /\ monitor' = IF started.loops = health_loops THEN monitor
                     ELSE [pc |-> "sleep", idx |-> 0]
       /\ providers' = AfterRecovery(providers)
       /\ recorded' = IF forced THEN [i \in DOMAIN providers |-> 0] ELSE recorded
       /\ streak' = IF forced THEN [i \in DOMAIN providers |-> 0] ELSE streak
       /\ IF cands = <<>>
          THEN Exhausted(c, frame, cap)
          ELSE /\ chat' = [chat EXCEPT ![c] = [frame EXCEPT !.pc = "request",
                                                           !.pi = 1, !.attempt = 0]]
               /\ running' = 0
               /\ UNCHANGED <<tasks, pending_tasks>>

\* A caller awaits chat(messages) with messages[0].content[:50] = content
ChatCall(c, content, cap) ==
    /\ running = 0
    /\ CoroIdle(c)
    /\ ChatEnter(c, content, FALSE, cap)
    /\ UNCHANGED <<fixed, now, sweep>>

\* What the POST of _make_request can bring: a 2xx answer with choices
\* ("ok"), an exception of the client (connection, timeout), a status that
\* raise_for_status() rejects, a body that is not the JSON expected, a body
\* with an 'error' field
Responses == {"ok", "network", "status", "malformed", "error_field"}

\* The responses of an outage
Failures == Responses \ {"ok"}

\* The responses of the specifications that do not tell failures apart
OneKind == {"ok", "status"}

\* A request that is not the code's: a body with an 'error' field is returned
\* as an answer
MakeRequestErrorReturned(response) ==
    IF response \in {"ok", "error_field"} THEN "returned" ELSE "raised"

\* Lines 372-392: client.post raises, raise_for_status() raises,
\* response.json() or data['choices'][0] raises, 'error' in data raises;
\* nothing else ends the function but its return
_make_request(response) ==
    IF response = "ok" THEN "returned" ELSE "raised"

\* A success path that is not the code's: a call that succeeds after failed
\* attempts stores its task all the same
ChatSuccessStored(c, response) ==
    LET f == chat[c]
        p == f.cands[f.pi]
        call == [provider |-> p, attempt |-> f.attempt + 1, ok |-> TRUE,
                 response |-> response]
    IN /\ running = 0
       /\ f.pc = "request"
       /\ _make_request(response) = "returned"
       /\ providers' = [providers EXCEPT ![p] = RecordSuccess(@)]
       /\ recorded' = [recorded EXCEPT ![p] = 0]
       /\ streak' = [streak EXCEPT ![p] = 0]
       /\ chat' = [chat EXCEPT ![c] = [f EXCEPT !.pc = "returned",
                                               !.calls = Append(@, call),
                                               !.result = "success",
                                               !.provider = providers[p].name]]
       /\ running' = c
       /\ IF f.calls # <<>> /\ Len(tasks) < MaxSweepTasks
          THEN /\ tasks' = StoredTasks(f.content)
               /\ pending_tasks' = StoredPending(f.content)
          ELSE UNCHANGED <<tasks, pending_tasks>>
       /\ UNCHANGED <<fixed, health_monitor_started, health_loops, monitor, now, sweep>>

\* Lines 301-318: _make_request returned
ChatSuccess(c, response) ==
    LET f == chat[c]
        p == f.cands[f.pi]
        call == [provider |-> p, attempt |-> f.attempt + 1, ok |-> TRUE,
                 response |-> response]
    IN /\ running = 0
       /\ f.pc = "request"
       /\ _make_request(response) = "returned"
       /\ providers' = [providers EXCEPT ![p] = RecordSuccess(@)]
       /\ recorded' = [recorded EXCEPT ![p] = 0]
       /\ streak' = [streak EXCEPT ![p] = 0]
       /\ chat' = [chat EXCEPT ![c] = [f EXCEPT !.pc = "returned",
                                               !.calls = Append(@, call),
                                               !.result = "success",
                                               !.provider = providers[p].name]]
       /\ running' = c
       /\ UNCHANGED <<fixed, health_monitor_started, health_loops, monitor, tasks,
                      pending_tasks, now, sweep>>

\* A delay that is not the code's: the same wait after every failed attempt
BackoffFlat(attempt) == retry_delay

\* Line 325: the argument of asyncio.sleep after the failure of attempt
\* number attempt of range(max_attempts), which counts from 0
BackoffDelay(attempt) == retry_delay * (attempt + 1)

\* Lines 320-325: _make_request raised and attempts are left: back off
ChatRetry(c, response) ==
    LET f == chat[c]
        p == f.cands[f.pi]
        call == [provider |-> p, attempt |-> f.attempt + 1, ok |-> FALSE,
                 response |-> response]
    IN /\ running = 0
       /\ f.pc = "request"
       /\ _make_request(response) = "raised"
       /\ f.attempt < max_attempts - 1
       /\ chat' = [chat EXCEPT ![c] = [f EXCEPT !.pc = "sleep",
                                               !.calls = Append(@, call),
                                               !.last_error = response,
                                               !.delay = BackoffDelay(f.attempt)]]
       /\ UNCHANGED <<fixed, providers, health_monitor_started, health_loops, monitor, tasks,
                      pending_tasks, now, running, sweep, recorded, streak>>

\* asyncio.sleep is over: the next attempt on the same provider
ChatWake(c) ==
    LET f == chat[c]
    IN /\ running = 0
       /\ f.pc = "sleep"
       /\ chat' = [chat EXCEPT ![c] = [f EXCEPT !.pc = "request", !.attempt = @ + 1]]
       /\ now' = Later(now)
       /\ UNCHANGED <<fixed, providers, health_monitor_started, health_loops, monitor, tasks,
                      pending_tasks, running, sweep, recorded, streak>>

\* chat() has returned or raised into a caller that is not the sweep: the caller
\* takes the outcome and runs on to its own next await
ChatDone(c) ==
    /\ running = c
    /\ chat[c].pc = "returned"
    /\ ~chat[c].nested
    /\ chat' = [chat EXCEPT ![c] = IdleChat]
    /\ running' = 0
    /\ UNCHANGED <<fixed, providers, health_monitor_started, health_loops, monitor, tasks,
                   pending_tasks, now, sweep, recorded, streak>>

\* Lines 326-339: _make_request raised on the provider's last attempt: record the
\* failure, then the next provider's first request, or the store and the raise
ChatFailover(c, cap, response) ==
    LET f == chat[c]
        p == f.cands[f.pi]
        call == [provider |-> p, attempt |-> f.attempt + 1, ok |-> FALSE,
                 response |-> response]
        after == RecordFailureInline(providers[p])
        f1 == [f EXCEPT !.calls = Append(@, call),
                        !.last_error = response,
                        !.failures = Append(@, [provider |-> p,
                                                delta |-> after.error_count
                                                          - providers[p].error_count])]
    IN /\ running = 0
       /\ f.pc = "request"
       /\ _make_request(response) = "raised"
       /\ f.attempt >= max_attempts - 1
       /\ providers[p].error_count < MaxErrorCount
       /\ providers' = [providers EXCEPT ![p] = after]
       /\ recorded' = [recorded EXCEPT ![p] = @ + 1]
       /\ streak' = [streak EXCEPT ![p] = -1]
       /\ IF f.pi < Len(f.cands)
          THEN /\ chat' = [chat EXCEPT ![c] = [f1 EXCEPT !.pi = @ + 1, !.attempt = 0]]
               /\ UNCHANGED <<tasks, pending_tasks, running>>
          ELSE Exhausted(c, f1, cap)
       /\ UNCHANGED <<fixed, health_monitor_started, health_loops, monitor, now, sweep>>

----------------------------------------------------------------------------
(* HealthMonitor *)

\* health_check_loop: asyncio.sleep(health_check_interval) is over, a round of
\* _check_providers_health begins with the first provider's GET
MonitorWake ==
    /\ running = 0
    /\ monitor.pc = "sleep"
    /\ monitor' = IF providers = <<>> THEN monitor ELSE [pc |-> "probe", idx |-> 1]
    /\ now' = Later(now)
    /\ UNCHANGED <<fixed, providers, health_monitor_started, health_loops, tasks, pending_tasks,
                   running, chat, sweep, recorded, streak>>

ProbeOutcomes == {"200", "non200", "exception"}

\* A loop that is not the code's: an exception of the GET is not caught and
\* ends the monitor's task
AfterProbeRaised(p, n, outcome) ==
    IF outcome = "exception" THEN [pc |-> "raised", idx |-> 0]
    ELSE IF p < n THEN [pc |-> "probe", idx |-> p + 1]
    ELSE [pc |-> "sleep", idx |-> 0]

\* Lines 170-207 and 154-157: the try of the for loop's body catches every
\* Exception, so after provider p of n the loop goes on to provider p + 1 and
\* after the last one _check_providers_health() returns to the loop's sleep
AfterProbe(p, n, outcome) ==
    IF p < n THEN [pc |-> "probe", idx |-> p + 1]
    ELSE [pc |-> "sleep", idx |-> 0]

\* Lines 182-207: the GET of provider idx answered or raised; the next provider's
\* GET follows, or the loop's sleep
ProbeResponse(outcome) ==
    LET p == monitor.idx
    IN /\ running = 0
       /\ monitor.pc = "probe"
       /\ outcome # "200" => providers[p].error_count < MaxErrorCount
       /\ providers' = [providers EXCEPT ![p] = ProbeResult(@, outcome)]
       /\ recorded' = [recorded EXCEPT ![p] = IF outcome = "200" THEN 0 ELSE @ + 1]
       /\ streak' = [streak EXCEPT ![p] = IF outcome = "200" THEN 0
                                          ELSE IF @ >= 0 THEN @ + 1 ELSE @]
       /\ monitor' = AfterProbe(p, Len(providers), outcome)
       /\ UNCHANGED <<fixed, health_monitor_started, health_loops, tasks, pending_tasks, now,
                      running, chat, sweep>>

----------------------------------------------------------------------------
(* retry_pending_tasks() *)

\* Lines 434-437: the sweep's locals, the loop over a copy of the dict's items
RetryCall(c) ==
    /\ running = 0
    /\ CoroIdle(c)
    /\ sweep' = [sweep EXCEPT ![c] = [IdleSweep EXCEPT !.pc = "loop",
                                                       !.snap = pending_tasks,
                                                       !.i = 1]]
    /\ running' = c
    /\ UNCHANGED <<fixed, providers, health_monitor_started, health_loops, monitor, tasks,
                   pending_tasks, now, chat, recorded, streak>>

\* Lines 437-451: one turn of the loop up to its await: a task that has used up
\* its retries is only marked for removal, any other is submitted to chat() again
RetryIter(c, cap) ==
    LET s == sweep[c]
        e == s.snap[s.i]
    IN /\ running = c
       /\ s.pc = "loop"
       /\ s.i <= Len(s.snap)
       /\ IF tasks[e.obj].attempts >= max_retries
          THEN /\ sweep' = [sweep EXCEPT ![c] = [s EXCEPT !.to_remove = Append(@, e.key),
                                                         !.i = @ + 1]]
               /\ UNCHANGED <<providers, health_monitor_started, health_loops, monitor, tasks,
                              pending_tasks, running, chat, recorded, streak>>
          ELSE /\ ChatEnter(c, tasks[e.obj].content, TRUE, cap)
               /\ sweep' = [sweep EXCEPT ![c] = [s EXCEPT !.pc = "chat"]]
       /\ UNCHANGED <<fixed, now>>

\* A bookkeeping that is not the code's: the outcome noted, the removal forgotten
SweepSucceededKept(s, key) ==
    [s EXCEPT !.results = Append(@, [task_id |-> key, status |-> "success", attempts |-> 0])]

\* Lines 453-459: the sweep's lists after a re-submission that succeeded
SweepSucceeded(s, key) ==
    [s EXCEPT !.results = Append(@, [task_id |-> key, status |-> "success", attempts |-> 0]),
              !.to_remove = Append(@, key)]

\* An update that is not the code's: the error noted, the attempt not counted
TaskFailedUncounted(t, err) == [t EXCEPT !.last_error = err]

\* Lines 466-467: the task object after a re-submission that raised err
TaskFailed(t, err) == [t EXCEPT !.attempts = @ + 1, !.last_error = err]

\* Lines 468-473: the sweep's lists after a re-submission that failed
SweepFailed(s, key, attempts) ==
    [s EXCEPT !.results = Append(@, [task_id |-> key, status |-> "failed",
                                     attempts |-> attempts])]

\* Lines 453-459: chat() returned a response
RetrySucceeded(c) ==
    LET s == sweep[c]
        e == s.snap[s.i]
    IN /\ running = c
       /\ s.pc = "chat"
       /\ chat[c].pc = "returned"
       /\ chat[c].result = "success"
       /\ sweep' = [sweep EXCEPT ![c] =
                      [SweepSucceeded(s, e.key)
                         EXCEPT !.pc = "loop", !.i = @ + 1,
                                !.submitted = Append(@, [key |-> e.key,
                                                         result |-> chat[c].result])]]
       /\ chat' = [chat EXCEPT ![c] = IdleChat]
       /\ UNCHANGED <<fixed, providers, health_monitor_started, health_loops, monitor, tasks,
                      pending_tasks, now, running, recorded, streak>>

\* Lines 465-473: chat() raised; the task object the sweep holds is updated
RetryFailed(c) ==
    LET s == sweep[c]
        e == s.snap[s.i]
        failed == TaskFailed(tasks[e.obj], <<"All providers failed", chat[c].task_id>>)
    IN /\ running = c
       /\ s.pc = "chat"
       /\ chat[c].pc = "returned"
       /\ chat[c].result = "exhausted"
       /\ tasks' = [tasks EXCEPT ![e.obj] = failed]
       /\ sweep' = [sweep EXCEPT ![c] =
                      [SweepFailed(s, e.key, failed.attempts)
                         EXCEPT !.pc = "loop", !.i = @ + 1,
                                !.submitted = Append(@, [key |-> e.key,
                                                         result |-> chat[c].result])]]
       /\ chat' = [chat EXCEPT ![c] = IdleChat]
       /\ UNCHANGED <<fixed, providers, health_monitor_started, health_loops, monitor,
                      pending_tasks, now, running, recorded, streak>>

RECURSIVE RemoveAll(_, _)
\* Lines 476-477: the dels in order; the first key that is gone raises KeyError
\* and leaves the dels made before it done
RemoveAll(dict, keys) ==
    IF keys = <<>> THEN [dict |-> dict, raised |-> FALSE]
    ELSE IF ~HasKey(dict, Head(keys)) THEN [dict |-> dict, raised |-> TRUE]
    ELSE RemoveAll(DictDel(dict, Head(keys)), Tail(keys))

\* Lines 475-479: the loop is over: remove, then return the results
RetryFinish(c) ==
    LET s == sweep[c]
        r == RemoveAll(pending_tasks, s.to_remove)
    IN /\ running = c
       /\ s.pc = "loop"
       /\ s.i > Len(s.snap)
       /\ pending_tasks' = r.dict
       /\ sweep' = [sweep EXCEPT ![c] = [s EXCEPT !.pc = IF r.raised THEN "raised"
                                                        ELSE "done"]]
       /\ UNCHANGED <<fixed, providers, health_monitor_started, health_loops, monitor, tasks,
                      now, running, chat, recorded, streak>>

\* retry_pending_tasks() has returned its results, or raised KeyError, into its
\* caller, which runs on to its own next await
RetryDone(c) ==
    /\ running = c
    /\ sweep[c].pc \in {"done", "raised"}
    /\ sweep' = [sweep EXCEPT ![c] = IdleSweep]
    /\ running' = 0
    /\ UNCHANGED <<fixed, providers, health_monitor_started, health_loops, monitor, tasks,
                   pending_tasks, now, chat, recorded, streak>>

----------------------------------------------------------------------------
(* _make_request(): the request built for a provider *)

\* x in xs for a Python list: some element equals x
InList(x, xs) == \E k \in DOMAIN xs : xs[k] = x

\* Lines 217-238: the table of _map_model_to_provider, {} for any other name
model_mappings(name) ==
    CASE name = "groq" ->
           [default |-> "llama-3.1-8b-instant", coder |-> "llama-3.1-8b-instant",
            planner |-> "mixtral-8x7b-32768"]
      [] name = "openrouter" ->
           [default |-> "mistralai/mistral-7b-instruct",
            coder |-> "codellama/codellama-70b-instruct",
            planner |-> "anthropic/claude-3-sonnet"]
      [] name = "anthropic" ->
           [default |-> "claude-3-sonnet-20240229", coder |-> "claude-3-sonnet-20240229",
            planner |-> "claude-3-sonnet-20240229"]
      [] name = "openai" ->
           [default |-> "gpt-3.5-turbo", coder |-> "gpt-3.5-turbo", planner |-> "gpt-4"]
      [] OTHER -> <<>>

\* A resolution that is not the code's: a name the table lacks is passed on as
\* it is, declared by the provider or not
MapModelPassThrough(model, provider) ==
    LET provider_mappings == model_mappings(provider.name)
    IN IF model \in DOMAIN provider_mappings THEN provider_mappings[model] ELSE model

\* Lines 240-252
_map_model_to_provider(model, provider) ==
    LET provider_mappings == model_mappings(provider.name)
    IN IF model \in DOMAIN provider_mappings THEN provider_mappings[model]
       ELSE IF InList(model, provider.models) THEN model
       ELSE IF "default" \in DOMAIN provider_mappings THEN provider_mappings["default"]
       ELSE IF provider.models # <<>> THEN provider.models[1]
       ELSE ""

\* A formatting that is not the code's: the system messages are left out
FormatDroppingSystem(messages) ==
    SelectSeq(messages, LAMBDA msg : msg.role # "system")

\* Lines 394-403; a content is the sequence of its parts
_format_for_anthropic(messages) ==
    [k \in DOMAIN messages |->
        IF messages[k].role = "system"
        THEN [role |-> "user", content |-> <<"System: ">> \o messages[k].content]
        ELSE [role |-> messages[k].role, content |-> messages[k].content]]

\* Lines 357-362
FormattedMessages(provider, messages) ==
    IF provider.name = "anthropic"
    THEN _format_for_anthropic(messages)
    ELSE [k \in DOMAIN messages |->
            [role |-> messages[k].role, content |-> messages[k].content]]

\* The model names callers pass, and the message lists they send
Aliases == {"default", "coder", "planner", "gpt-4", "unknown-alias"}
Roles == {"system", "user", "assistant"}
Texts == {<<"hi">>, <<"System: ", "hi">>}
MessageLists ==
    UNION {[1..n -> [role : Roles, content : Texts]] : n \in 0..MaxMessages}

\* Lines 289-370: the model resolved and the payload built for one request to
\* provider i
MakeRequest(i, alias, messages) ==
    /\ payload = NoPayload
    /\ payload' = [provider |-> providers[i].name,
                   alias |-> alias,
                   model |-> _map_model_to_provider(alias, providers[i]),
                   messages |-> messages,
                   formatted |-> FormattedMessages(providers[i], messages)]
    /\ UNCHANGED <<settings, providers, health_monitor_started, health_loops, monitor, tasks,
                   pending_tasks, now, running, chat, sweep, recorded, streak,
                   transcription>>

\* Lines 372-392: the request is posted and _make_request() ends, its payload
\* with it
RequestReturn ==
    /\ payload # NoPayload
    /\ payload' = NoPayload
    /\ UNCHANGED <<settings, providers, health_monitor_started, health_loops, monitor, tasks,
                   pending_tasks, now, running, chat, sweep, recorded, streak,
                   transcription>>

\* One request, to any provider, for any model name and message list
NextRequest ==
    \/ \E i \in DOMAIN providers, alias \in Aliases, messages \in MessageLists :
           MakeRequest(i, alias, messages)
    \/ RequestReturn

----------------------------------------------------------------------------
(* transcribe_audio() *)

\* Line 512: [p for p in self.providers if 'whisper' in p.models]
whisper_providers(provs) == SelectSeq(provs, LAMBDA p : InList("whisper", p.models))

\* The model= arguments callers pass ("None": the default)
TranscriptionModels == {"None", "whisper-large-v3"}

\* Lines 501-520: the call, up to the failure or to the await that reads the file
TranscribeCall(model) ==
    LET found == whisper_providers(providers)
    IN /\ running = 0
       /\ transcription.pc = "idle"
       /\ transcription' =
             IF found = <<>>
             THEN [IdleTranscription EXCEPT
                     !.pc = "raised",
                     !.error = "No provider with Whisper support available"]
             ELSE [IdleTranscription EXCEPT
                     !.pc = "read",
                     !.provider = found[1].name,
                     !.model = IF model = "None" THEN "whisper-large-v3" ELSE model]
       /\ UNCHANGED <<settings, providers, health_monitor_started, health_loops, monitor, tasks,
                      pending_tasks, now, running, chat, sweep, recorded, streak, payload>>

\* Lines 519-558: the file is read, the multipart body built and the POST sent
TranscribeRead(ok) ==
    /\ running = 0
    /\ transcription.pc = "read"
    /\ transcription' = IF ok THEN [transcription EXCEPT !.pc = "post"]
                        ELSE [transcription EXCEPT !.pc = "raised", !.error = "OSError"]
    /\ UNCHANGED <<settings, providers, health_monitor_started, health_loops, monitor, tasks,
                   pending_tasks, now, running, chat, sweep, recorded, streak, payload>>

\* Lines 553-563: the POST is answered; raise_for_status() and result.get('text')
TranscribePost(ok) ==
    /\ running = 0
    /\ transcription.pc = "post"
    /\ transcription' = IF ok THEN [transcription EXCEPT !.pc = "returned"]
                        ELSE [transcription EXCEPT !.pc = "raised", !.error = "HTTPError"]
    /\ UNCHANGED <<settings, providers, health_monitor_started, health_loops, monitor, tasks,
                   pending_tasks, now, running, chat, sweep, recorded, streak, payload>>

\* The caller has taken the text or the exception
TranscribeDone ==
    /\ transcription.pc \in {"returned", "raised"}
    /\ transcription' = IdleTranscription
    /\ UNCHANGED <<settings, providers, health_monitor_started, health_loops, monitor, tasks,
                   pending_tasks, now, running, chat, sweep, recorded, streak, payload>>

----------------------------------------------------------------------------
(* Specifications *)

\* A caller of chat(): the agents and handlers that await llm_client.chat
CallerStep(c, cap) ==
    \/ \E content \in Contents : ChatCall(c, content, cap)
    \/ ChatDone(c)

\* A chat() call under way, called by a caller or by the sweep
ChatRun(c, cap, responses) ==
    \/ \E response \in responses : ChatSuccess(c, response)
    \/ \E response \in responses : ChatRetry(c, response)
    \/ ChatWake(c)
    \/ \E response \in responses : ChatFailover(c, cap, response)

\* A caller of retry_pending_tasks()
SweeperStep(c, cap) ==
    \/ RetryCall(c)
    \/ RetryIter(c, cap)
    \/ RetrySucceeded(c)
    \/ RetryFailed(c)
    \/ RetryFinish(c)
    \/ RetryDone(c)

MonitorStep(outcomes) ==
    \/ MonitorWake
    \/ \E outcome \in outcomes : ProbeResponse(outcome)

\* Every configuration, every coroutine both a caller and a sweeper
Next ==
    \/ \E c \in Coros : CallerStep(c, MaxTasks)
    \/ \E c \in Coros : ChatRun(c, MaxTasks, Responses)
    \/ \E c \in Coros : SweeperStep(c, MaxTasks)
    \/ MonitorStep(ProbeOutcomes)
    \/ \E model \in TranscriptionModels : TranscribeCall(model)
    \/ \E ok \in BOOLEAN : TranscribeRead(ok)
    \/ \E ok \in BOOLEAN : TranscribePost(ok)
    \/ TranscribeDone
    \/ NextRequest
    \/ Tick

Spec == Init /\ [][Next]_vars

\* The configurations the other specifications start from: no key set (no
\* provider at all) or the one required key (groq and openrouter)
InitSmall ==
    /\ Init
    /\ settings \in {{}, {"OPENROUTER_API_KEY"}}

\* One caller of chat() beside the health monitor
NextChat ==
    \/ CallerStep(1, MaxTasks)
    \/ ChatRun(1, MaxTasks, OneKind)
    \/ MonitorStep(ProbeOutcomes)
    \/ Tick

SpecChat == InitSmall /\ [][NextChat]_vars

\* One coroutine that calls chat() and retry_pending_tasks() in turn, beside
\* the health monitor
NextRetry ==
    \/ CallerStep(1, MaxTasks)
    \/ ChatRun(1, MaxTasks, OneKind)
    \/ SweeperStep(1, MaxTasks)
    \/ MonitorStep({"200", "exception"})
    \/ Tick

SpecRetry == InitSmall /\ [][NextRetry]_vars

\* The required key alone is set: groq and openrouter
InitRouter ==
    /\ Init
    /\ settings = {"OPENROUTER_API_KEY"}

\* Coroutines that call chat() and retry_pending_tasks() side by side, while
\* the health monitor is asleep
NextSweeps ==
    \/ \E c \in Coros : CallerStep(c, MaxSweepTasks)
    \/ \E c \in Coros : ChatRun(c, MaxSweepTasks, OneKind)
    \/ \E c \in Coros : SweeperStep(c, MaxSweepTasks)
    \/ Tick

SpecSweeps == InitRouter /\ [][NextSweeps]_vars

\* One caller of chat() and no monitor; every kind of failure of a request.
\* A call begins while the store has room for the task it may leave.
KindsCall ==
    /\ Len(tasks) < MaxConcTasks
    /\ \E content \in Contents : ChatCall(1, content, MaxConcTasks)

NextKinds ==
    \/ KindsCall
    \/ ChatDone(1)
    \/ ChatRun(1, MaxConcTasks, Responses)
    \/ Tick

\* The event loop resumes a coroutine whose await is over, and every await of
\* chat() ends: the POST by its answer or its 60 s timeout, the sleep by its
\* delay
SpecKinds ==
    InitSmall /\ [][NextKinds]_vars /\ WF_vars(ChatRun(1, MaxConcTasks, Responses))

\* Every configuration; the requests built for every provider, model name and
\* message list
SpecRequest == Init /\ [][NextRequest]_vars

\* Every configuration; a caller of chat() and a caller of transcribe_audio(),
\* which with the providers of _setup_providers never gets to read its file
NextVoice ==
    \/ CallerStep(1, MaxConcTasks)
    \/ ChatRun(1, MaxConcTasks, OneKind)
    \/ \E model \in TranscriptionModels : TranscribeCall(model)
    \/ TranscribeDone
    \/ Tick

SpecVoice == Init /\ [][NextVoice]_vars

\* One coroutine that calls chat() and retry_pending_tasks() in turn and one
\* caller of transcribe_audio(), beside the health monitor: every operation
\* that reads or writes the registry
NextRegistry ==
    \/ CallerStep(1, MaxSweepTasks)
    \/ ChatRun(1, MaxSweepTasks, OneKind)
    \/ SweeperStep(1, MaxSweepTasks)
    \/ MonitorStep(ProbeOutcomes)
    \/ \E model \in TranscriptionModels : TranscribeCall(model)
    \/ TranscribeDone
    \/ Tick

SpecRegistry == InitSmall /\ [][NextRegistry]_vars

\* A total outage: every request fails.  One caller's chat() call leaves a
\* task, no caller comes after it, and retry_pending_tasks() is called time
\* after time by the same coroutine
OutageCall ==
    /\ tasks = <<>>
    /\ \E content \in Contents : ChatCall(1, content, MaxTasks)

NextOutage ==
    \/ OutageCall
    \/ ChatDone(1)
    \/ \E response \in Failures : ChatRetry(1, response)
    \/ ChatWake(1)
    \/ \E response \in Failures : ChatFailover(1, MaxTasks, response)
    \/ RetryCall(1)
    \/ RetryIter(1, MaxTasks)
    \/ RetryFailed(1)
    \/ RetryFinish(1)
    \/ RetryDone(1)
    \/ Tick

SpecOutage == InitRouter /\ [][NextOutage]_vars

\* Concurrent callers of chat() beside the health monitor, whose probes are
\* answered with a status code
NextConc ==
    \/ \E c \in Coros : CallerStep(c, MaxConcTasks)
    \/ \E c \in Coros : ChatRun(c, MaxConcTasks, OneKind)
    \/ MonitorStep({"200", "non200"})
    \/ Tick

SpecConc == InitRouter /\ [][NextConc]_vars

----------------------------------------------------------------------------
(* Properties of chat() *)

\* The providers with a priority below p's, p being an index of self.providers
Before(p) == {q \in DOMAIN providers : providers[q].priority < providers[p].priority}

\* The (provider, attempt) pairs of the ordered traversal of a call: the providers
\* that were not Down when chat() was called, all of them if every one was Down
Traversed(f) ==
    LET open == DOMAIN providers \ f.down_at_call
        tried == IF open = {} THEN DOMAIN providers ELSE open
    IN tried \X (1..max_attempts)

Made(f) == {<<f.calls[k].provider, f.calls[k].attempt>> : k \in DOMAIN f.calls}

Succeeded(f) == \E k \in DOMAIN f.calls : f.calls[k].ok

\* C1: a chat() call over at least one provider that has ended returned a
\* response or raised the exhaustion error; it raised only after every pair of
\* the ordered traversal (the providers not Down at the call, attempts
\* 1..max_attempts each) had been asked and had failed, and it returned a
\* response exactly when one of the pairs it asked succeeded.
C1_SuccessIfAnyPairSucceeds ==
    \A c \in Coros :
        LET f == chat[c]
        IN (f.pc = "returned" /\ providers # <<>>) =>
              /\ f.result \in {"success", "exhausted"}
              /\ Made(f) \subseteq Traversed(f)
              /\ f.result = "success" <=> Succeeded(f)
              /\ f.result = "exhausted" =>
                    /\ Made(f) = Traversed(f)
                    /\ \A k \in DOMAIN f.calls : ~f.calls[k].ok

\* A call that a provider of the second rank served on its last attempt
C1_Witness ==
    \E c \in Coros :
        LET f == chat[c]
        IN /\ f.pc = "returned"
           /\ f.result = "success"
           /\ Len(f.calls) = 2 * max_attempts
           /\ f.calls[Len(f.calls)].ok

\* The names of the candidates of a call, as a set of provider indices
CandidateSet(f) == {f.cands[k] : k \in DOMAIN f.cands}

\* C2: chat() asks its candidates in ascending order of priority and the first
\* success wins: a request goes to a provider only after every candidate of a
\* higher priority has failed all max_attempts attempts, no request follows a
\* successful one, and the response names the provider whose request succeeded.
C2_PriorityOrderFirstSuccessWins ==
    \A c \in Coros :
        LET f == chat[c]
            n == Len(f.calls)
        IN /\ \A k \in 1..n :
                /\ f.calls[k].provider \in CandidateSet(f)
                /\ \A q \in CandidateSet(f) \cap Before(f.calls[k].provider) :
                      \A a \in 1..max_attempts :
                          \E j \in 1..(k - 1) :
                              /\ f.calls[j].provider = q
                              /\ f.calls[j].attempt = a
                              /\ ~f.calls[j].ok
                /\ k < n => ~f.calls[k].ok
                /\ k < n =>
                      providers[f.calls[k].provider].priority
                          <= providers[f.calls[k + 1].provider].priority
           /\ (n > 0 /\ f.calls[n].ok) =>
                /\ f.pc = "returned"
                /\ f.result = "success"
                /\ f.provider = providers[f.calls[n].provider].name
           /\ f.result = "success" => (n > 0 /\ f.calls[n].ok)

\* groq (priority 1) failed every attempt, openrouter (priority 2) answered its
\* first request, and the response names openrouter
C2_Witness ==
    \E c \in Coros :
        LET f == chat[c]
        IN /\ f.pc = "returned"
           /\ Len(f.calls) = max_attempts + 1
           /\ \A k \in 1..max_attempts :
                 providers[f.calls[k].provider].name = "groq" /\ ~f.calls[k].ok
           /\ f.calls[max_attempts + 1].ok
           /\ providers[f.calls[max_attempts + 1].provider].priority = 2
           /\ f.provider = "openrouter"

RECURSIVE Increase(_, _)
\* By how much the writes of a call, listed in fs, raised provider p's error count
Increase(fs, p) ==
    IF fs = <<>> THEN 0
    ELSE (IF Head(fs).provider = p THEN Head(fs).delta ELSE 0) + Increase(Tail(fs), p)

\* A call made with groq (A, priority 1) and openrouter (B, priority 2) both
\* Healthy, in which A failed every attempt and B answered its first request
AFailsBServes(f) ==
    /\ f.pc = "returned"
    /\ f.all_healthy
    /\ Len(providers) = 2
    /\ Len(f.calls) = max_attempts + 1
    /\ \A k \in 1..max_attempts : f.calls[k].provider = 1 /\ ~f.calls[k].ok
    /\ f.calls[max_attempts + 1].provider = 2
    /\ f.calls[max_attempts + 1].ok

\* C3 as the specification has it: with A and B both healthy, A always failing
\* and B always succeeding, one chat() call increases A's error count by
\* exactly max_attempts.
C3_IncreaseByMaxAttempts ==
    \A c \in Coros :
        AFailsBServes(chat[c]) => Increase(chat[c].failures, 1) = max_attempts

\* C3: with A and B both healthy, A always failing and B always succeeding, one
\* chat() call increases A's error count by exactly 1: the failure is recorded
\* once, after A's last attempt, not once per attempt.
C3_IncreaseByOne ==
    \A c \in Coros :
        AFailsBServes(chat[c]) =>
            /\ Increase(chat[c].failures, 1) = 1
            /\ chat[c].failures = <<[provider |-> 1, delta |-> 1]>>

\* Such a call has returned, and A's error count, 0 before it, is 1
C3_Witness ==
    \E c \in Coros :
        /\ AFailsBServes(chat[c])
        /\ providers[1].name = "groq"
        /\ providers[1].error_count = 1
        /\ providers[2].error_count = 0

\* Coroutine c steps into chat(), from a caller or from the sweep
EntersChat(c) == chat[c].pc = "idle" /\ chat'[c].pc # "idle"

AllDown == providers # <<>> /\ \A i \in DOMAIN providers : providers[i].status = "down"

\* The requests a call has made are the first ones of the traversal of ps, a
\* list of providers, attempts 1..max_attempts on each in turn
OnTraversalOf(f, ps) ==
    /\ Len(f.calls) <= Len(ps) * max_attempts
    /\ \A k \in DOMAIN f.calls :
          /\ f.calls[k].provider = ps[((k - 1) \div max_attempts) + 1]
          /\ f.calls[k].attempt = ((k - 1) % max_attempts) + 1

\* C4: a chat() call that finds every provider Down does not raise without
\* trying: it first sets every provider Healthy with error count 0, then asks
\* all providers in ascending order of priority and returns a response if one
\* of the requests succeeds; a chat() call resets the providers only when its
\* listing of healthy providers is empty.
C4_ForcedRecovery ==
    /\ [][\A c \in Coros : EntersChat(c) =>
            /\ AllDown =>
                  /\ \A i \in DOMAIN providers :
                        /\ providers'[i].status = "healthy"
                        /\ providers'[i].error_count = 0
                  /\ chat'[c].pc = "request"
                  /\ chat'[c].result = "none"
                  /\ chat'[c].forced
            /\ providers' # providers => _get_healthy_providers(providers) = <<>>
            /\ (chat'[c].forced /\ providers # <<>>) => AllDown]_vars
    /\ [](\A c \in Coros :
            LET f == chat[c]
            IN (f.forced /\ providers # <<>>) =>
                  /\ OnTraversalOf(f, Indices(providers))
                  /\ \A k \in 1..(Len(providers) - 1) :
                        providers[k].priority <= providers[k + 1].priority
                  /\ f.pc = "returned" =>
                        /\ f.calls # <<>>
                        /\ f.result = "success" <=> Succeeded(f)
                        /\ f.result = "exhausted" =>
                              Len(f.calls) = Len(providers) * max_attempts)

\* A call that found groq and openrouter both Down has returned the response
\* openrouter gave on the forced pass
C4_Witness ==
    \E c \in Coros :
        LET f == chat[c]
        IN /\ f.forced
           /\ f.down_at_call = {1, 2}
           /\ f.pc = "returned"
           /\ f.result = "success"
           /\ f.provider = "openrouter"

----------------------------------------------------------------------------
(* Properties of the pending-task store *)

\* The chat() call of coroutine c raises the exhaustion error in this step
RaisesExhausted(c) == chat[c].result # "exhausted" /\ chat'[c].result = "exhausted"

\* C5: when every attempt on every candidate has failed, chat() adds exactly one
\* new PendingTask to the store (the number of pending tasks grows by exactly
\* 1), the attempt counter of that task is 1, and the error raised carries the
\* identifier under which the task is stored.
C5_ExhaustionStoresOneTask ==
    [][\A c \in Coros : RaisesExhausted(c) =>
          /\ Len(pending_tasks') = Len(pending_tasks) + 1
          /\ Len(tasks') = Len(tasks) + 1
          /\ tasks'[Len(tasks')].attempts = 1
          /\ \E k \in DOMAIN pending_tasks' :
                /\ pending_tasks'[k].key = chat'[c].task_id
                /\ pending_tasks'[k].obj = Len(tasks')]_vars

\* The keys a sweep re-submitted with the given result
Resubmitted(s, result) ==
    {s.submitted[k].key : k \in {j \in DOMAIN s.submitted : s.submitted[j].result = result}}

\* C6: when retry_pending_tasks() returns, every task whose re-submission
\* through chat() succeeded during the sweep is absent from the store, and the
\* list returned holds an outcome with status 'success' for its id.
C6_SucceededRetryRemoved ==
    \A c \in Coros :
        sweep[c].pc = "done" =>
            \A key \in Resubmitted(sweep[c], "success") :
                /\ ~HasKey(pending_tasks, key)
                /\ \E k \in DOMAIN sweep[c].results :
                      /\ sweep[c].results[k].task_id = key
                      /\ sweep[c].results[k].status = "success"

\* A sweep over one pending task has returned: the re-submission succeeded and
\* the store is empty
C6_Witness ==
    \E c \in Coros :
        /\ sweep[c].pc = "done"
        /\ Len(sweep[c].snap) = 1
        /\ Resubmitted(sweep[c], "success") = {sweep[c].snap[1].key}
        /\ sweep[c].results # <<>>
        /\ pending_tasks = <<>>

\* The object a sweep holds under a key of its copy of the store
Held(s, key) == tasks[s.snap[CHOOSE k \in DOMAIN s.snap : s.snap[k].key = key].obj]

\* The keys a sweep marked for removal without re-submitting them
Skipped(s) ==
    {s.to_remove[k] : k \in DOMAIN s.to_remove} \ Resubmitted(s, "success")

\* The re-submission of the task coroutine c's sweep is at fails in this step
RetryFails(c) ==
    /\ sweep[c].pc = "chat"
    /\ sweep'[c].pc = "loop"
    /\ chat[c].result = "exhausted"

\* C7 as the specification has it: a task whose retry failed stays queued unless
\* its attempt counter has reached max_retries; once a failed retry has brought
\* the counter to max_retries, the task is no longer in the store when that
\* sweep returns.
C7_DroppedBySameSweep ==
    \A c \in Coros :
        sweep[c].pc = "done" =>
            \A key \in Resubmitted(sweep[c], "exhausted") :
                HasKey(pending_tasks, key) <=> Held(sweep[c], key).attempts < max_retries

\* C7: a failed retry adds one to the task's attempt counter, updates its last
\* error and leaves the task in the store, whatever its counter: the sweep that
\* made the failed retry never removes that task, so that where sweeps do not
\* overlap the task is still stored when the sweep returns.  A task is dropped
\* by a sweep that finds its counter at max_retries or above when it comes to
\* it: that sweep does not re-submit the task, and the task is absent from the
\* store when it returns.
C7_DroppedByLaterSweep ==
    /\ [][\A c \in Coros : RetryFails(c) =>
            LET e == sweep[c].snap[sweep[c].i]
            IN /\ tasks'[e.obj].attempts = tasks[e.obj].attempts + 1
               /\ tasks'[e.obj].attempts <= max_retries
               /\ tasks'[e.obj].last_error = <<"All providers failed", chat[c].task_id>>
               /\ pending_tasks' = pending_tasks]_vars
    /\ [](\A c \in Coros :
            /\ \A key \in Resubmitted(sweep[c], "exhausted") :
                  /\ \A k \in DOMAIN sweep[c].to_remove : sweep[c].to_remove[k] # key
                  /\ sweep[c].pc = "done" => HasKey(pending_tasks, key)
            /\ \A key \in Skipped(sweep[c]) :
                  /\ Held(sweep[c], key).attempts >= max_retries
                  /\ key \notin Resubmitted(sweep[c], "exhausted")
                  /\ sweep[c].pc = "done" => ~HasKey(pending_tasks, key))

\* A sweep has returned after a failed retry that brought a task's counter to
\* max_retries, and the task is still in the store
C7_Witness ==
    \E c \in Coros :
        /\ sweep[c].pc = "done"
        /\ \E key \in Resubmitted(sweep[c], "exhausted") :
              /\ Held(sweep[c], key).attempts = max_retries
              /\ HasKey(pending_tasks, key)

\* A sweep has returned that removed, without re-submitting it, a task whose
\* counter had reached max_retries
C7_WitnessDropped ==
    \E c \in Coros :
        /\ sweep[c].pc = "done"
        /\ Skipped(sweep[c]) # {}

\* The keys a sweep has submitted to chat() so far, the one under way included
Taken(s) ==
    {s.submitted[k].key : k \in DOMAIN s.submitted}
        \cup (IF s.pc = "chat" THEN {s.snap[s.i].key} ELSE {})

\* C9: only one sweep processes a task at a time: when two calls of
\* retry_pending_tasks() overlap, no pending task is re-submitted by both, no
\* task is removed twice, and neither call fails because a task it meant to
\* remove is gone already.
C9_OneSweepPerTask ==
    \A c, d \in Coros :
        /\ sweep[c].pc # "raised"
        /\ (c # d /\ sweep[c].pc # "idle" /\ sweep[d].pc # "idle") =>
              /\ Taken(sweep[c]) \cap Taken(sweep[d]) = {}
              /\ \A j \in DOMAIN sweep[c].to_remove, k \in DOMAIN sweep[d].to_remove :
                    sweep[c].to_remove[j] # sweep[d].to_remove[k]

\* C9, its last clause alone: no call of retry_pending_tasks() raises KeyError
\* on a task that an overlapping call has removed
C9_NoSweepRaises == \A c \in Coros : sweep[c].pc # "raised"

----------------------------------------------------------------------------
(* Properties of the health monitor and of the provider records *)

\* The probe of provider p is answered in this step: with 200, or with a failure
\* (another status code, or an exception)
ProbeAnswered(p) == monitor.pc = "probe" /\ monitor.idx = p /\ monitor' # monitor

ProbeOk(p) == ProbeAnswered(p) /\ recorded'[p] = 0

ProbeFailed(p) == ProbeAnswered(p) /\ recorded'[p] = recorded[p] + 1

\* C8: a provider that was Healthy with error count 0 and has since failed n
\* health probes in a row (non-200 answers or exceptions), nothing else having
\* written to it, has error count n and is Down if n >= 3 and Healthy if n < 3:
\* it is Down after the third failure and not before.  A probe answered with 200
\* sets the provider Healthy with error count 0.
C8_DownAfterThreeFailedProbes ==
    /\ [](\A p \in DOMAIN providers :
            streak[p] >= 0 =>
                /\ providers[p].error_count = streak[p]
                /\ providers[p].status = IF streak[p] >= 3 THEN "down" ELSE "healthy")
    /\ [][\A p \in DOMAIN providers :
            /\ ProbeAnswered(p) => (ProbeOk(p) \/ ProbeFailed(p))
            /\ (ProbeFailed(p) /\ streak[p] >= 0) => streak'[p] = streak[p] + 1
            /\ ProbeOk(p) =>
                  /\ providers'[p].status = "healthy"
                  /\ providers'[p].error_count = 0]_vars

\* openrouter has failed three probes in a row, one of them by an exception, and
\* is Down
C8_Witness ==
    \E p \in DOMAIN providers :
        /\ providers[p].name = "openrouter"
        /\ streak[p] = 3
        /\ providers[p].status = "down"
        /\ providers[p].last_error = "probe_exception"

\* A failure is recorded against provider p in this step: by a chat() call
\* after the last attempt, or by the monitor after a failed probe
FailureRecorded(p) == recorded'[p] = recorded[p] + 1

\* C10: no update of a provider's error count is lost: whatever the
\* interleaving of concurrent chat() calls and the health monitor, each
\* failure recorded raises the count by exactly one above the value the
\* latest write left, and the count equals the number of failures recorded
\* since it was last reset to 0.
C10_NoLostUpdate ==
    /\ [](\A p \in DOMAIN providers : providers[p].error_count = recorded[p])
    /\ [][\A p \in DOMAIN providers :
            FailureRecorded(p) =>
                providers'[p].error_count = providers[p].error_count + 1]_vars

\* Two chat() calls under way at once have each recorded a failure of groq, the
\* monitor has recorded a third, and groq's error count is 3
C10_Witness ==
    /\ Len(providers) > 0
    /\ providers[1].error_count = 3
    /\ providers[1].status = "down"
    /\ \A c \in Coros :
          /\ chat[c].pc \in {"request", "sleep"}
          /\ chat[c].failures = <<[provider |-> 1, delta |-> 1]>>

\* The chat() call of coroutine c returns a response in this step
ReturnsResponse(c) == chat[c].result # "success" /\ chat'[c].result = "success"

\* C13: a successful attempt in chat() leaves the provider that served it
\* Healthy, with error count 0 and with its last error cleared (None), whatever
\* its status, error count and last error were before.
C13_SuccessClearsLastError ==
    [][\A c \in Coros : ReturnsResponse(c) =>
          LET p == chat[c].cands[chat[c].pi]
          IN /\ providers'[p].status = "healthy"
             /\ providers'[p].error_count = 0
             /\ providers'[p].last_error = "None"]_vars

\* C16: the listing of healthy providers holds exactly the providers whose
\* status is not Down, Healthy and Degraded ones alike, each once, in ascending
\* order of priority, and taking it changes no provider.
C16_HealthyListing ==
    /\ [](LET l == _get_healthy_providers(providers)
          IN /\ {l[k] : k \in DOMAIN l}
                   = {i \in DOMAIN providers : providers[i].status \in {"healthy", "degraded"}}
             /\ \A i \in DOMAIN providers :
                   providers[i].status \in {"healthy", "degraded", "down"}
             /\ \A j, k \in DOMAIN l : j # k => l[j] # l[k]
             /\ \A j, k \in DOMAIN l :
                   j < k => providers[l[j]].priority <= providers[l[k]].priority)
    /\ [][\A c \in Coros :
            (EntersChat(c) /\ _get_healthy_providers(providers) # <<>>) =>
                /\ providers' = providers
                /\ chat'[c].cands = _get_healthy_providers(providers)]_vars

\* A call has taken the listing with groq Down and openrouter Degraded: its
\* only candidate is openrouter
C16_Witness ==
    \E c \in Coros :
        /\ chat[c].pc = "request"
        /\ chat[c].calls = <<>>
        /\ Len(providers) = 2
        /\ providers[1].status = "down"
        /\ providers[2].status = "degraded"
        /\ chat[c].cands = <<2>>

\* Provider p is in the listing of healthy providers
Listed(p, provs) == InList(p, _get_healthy_providers(provs))

\* C14: a recorded failure that brings a provider's error count to 3 or more
\* makes the provider Down when the health monitor recorded it and Degraded
\* when chat() recorded it after the last attempt; a Degraded provider is in
\* the listing of healthy providers, so a failure that chat() records never
\* takes a provider out of the candidates.
C14_DownByMonitorDegradedInline ==
    /\ [][\A p \in DOMAIN providers :
            FailureRecorded(p) =>
                /\ providers'[p].error_count >= ErrorThreshold =>
                      providers'[p].status = IF ProbeAnswered(p) THEN "down" ELSE "degraded"
                /\ providers'[p].error_count < ErrorThreshold =>
                      providers'[p].status = providers[p].status
                /\ (~ProbeAnswered(p) /\ Listed(p, providers)) => Listed(p, providers')]_vars
    /\ [](\A p \in DOMAIN providers :
            providers[p].status = "degraded" => Listed(p, providers))

\* groq, Degraded by three failures that chat() recorded, is the first
\* candidate of a new call
C14_Witness ==
    \E c \in Coros :
        /\ chat[c].pc = "request"
        /\ chat[c].calls = <<>>
        /\ ~chat[c].forced
        /\ providers[chat[c].cands[1]].name = "groq"
        /\ providers[chat[c].cands[1]].status = "degraded"
        /\ providers[chat[c].cands[1]].error_count = ErrorThreshold

----------------------------------------------------------------------------
(* Properties of the error paths *)

\* C11: with no provider configured, chat() fails at once and leaves nothing
\* to retry: no request is made and no PendingTask is stored for the call, so
\* that no later retry_pending_tasks() re-submits it.
C11_NoProviderNothingStored ==
    [][\A c \in Coros : (EntersChat(c) /\ providers = <<>>) =>
          /\ chat'[c].pc = "returned"
          /\ chat'[c].calls = <<>>
          /\ tasks' = tasks
          /\ pending_tasks' = pending_tasks]_vars

\* C15: every recorded failure of a provider records the error on the
\* provider: after the last failed attempt of chat() on it, and after a failed
\* health probe of it (an exception or an answer other than 200), the
\* provider's last_error holds an error text.
C15_FailureRecordsErrorText ==
    [][\A p \in DOMAIN providers :
          FailureRecorded(p) => providers'[p].last_error # "None"]_vars

\* The names of the models that transcribe audio
WhisperModels == {"whisper", "whisper-large-v3"}

\* Provider p declares a model that transcribes audio
Transcribes(p) == \E k \in DOMAIN p.models : p.models[k] \in WhisperModels

\* C12: transcribe_audio() goes to a provider whose declared models include one
\* that transcribes audio (groq declares "whisper-large-v3"); it fails with
\* "No provider with Whisper support available" only if no configured provider
\* declares such a model, and then at once, without a network call.
C12_TranscriptionRouted ==
    /\ transcription.error = "No provider with Whisper support available" =>
          ~\E i \in DOMAIN providers : Transcribes(providers[i])
    /\ transcription.pc \in {"read", "post", "returned"} =>
          \E i \in DOMAIN providers :
              /\ providers[i].name = transcription.provider
              /\ Transcribes(providers[i])

----------------------------------------------------------------------------
(* Properties of the requests *)

\* C17: the model a request names is a function of the name asked for and of
\* the provider: the provider's table entry for the name if there is one,
\* else the name itself if the provider declares it, else the provider's
\* 'default' entry.  It is never empty, "planner" resolves to the provider's
\* planner entry and a name unknown to the provider to its default entry.
C17_ModelResolution ==
    payload.provider # "None" =>
        LET table == model_mappings(payload.provider)
            declared == DeclaredModels(payload.provider)
            known == payload.alias \in {"default", "coder", "planner"}
        IN /\ payload.model # ""
           /\ DOMAIN table = {"default", "coder", "planner"}
           /\ declared # <<>>
           /\ known => payload.model = table[payload.alias]
           /\ (~known /\ InList(payload.alias, declared)) => payload.model = payload.alias
           /\ (~known /\ ~InList(payload.alias, declared)) => payload.model = table["default"]
           /\ payload.alias = "planner" => payload.model = table.planner

\* A request to openrouter for a model name it does not know names
\* openrouter's default model
C17_Witness ==
    /\ payload.provider = "openrouter"
    /\ payload.alias = "unknown-alias"
    /\ payload.model = "mistralai/mistral-7b-instruct"

\* C19: a request to anthropic carries as many messages as were given, in
\* their order, each system message as a user message whose content is
\* "System: " followed by the original content and every other message with
\* its role and content; a request to any other provider carries every
\* message with its role and content.
C19_AnthropicFormatting ==
    payload.provider # "None" =>
        /\ Len(payload.formatted) = Len(payload.messages)
        /\ \A k \in DOMAIN payload.messages :
              LET msg == payload.messages[k]
                  sent == payload.formatted[k]
              IN IF payload.provider = "anthropic" /\ msg.role = "system"
                 THEN /\ sent.role = "user"
                      /\ Len(sent.content) = Len(msg.content) + 1
                      /\ sent.content[1] = "System: "
                      /\ \A j \in DOMAIN msg.content : sent.content[j + 1] = msg.content[j]
                 ELSE /\ sent.role = msg.role
                      /\ sent.content = msg.content

\* A request to anthropic with a system message followed by a user message
\* whose own text begins with "System: "
C19_Witness ==
    /\ payload.provider = "anthropic"
    /\ Len(payload.messages) = 2
    /\ payload.messages[1] = [role |-> "system", content |-> <<"hi">>]
    /\ payload.messages[2] = [role |-> "user", content |-> <<"System: ", "hi">>]
    /\ payload.formatted[1] = [role |-> "user", content |-> <<"System: ", "hi">>]
    /\ payload.formatted[2] = payload.messages[2]

----------------------------------------------------------------------------
(* Properties of the health monitor's failures *)

\* C18: whatever a probe's outcome (200, another status, an exception), the
\* monitor goes on to the next provider's probe, or to its sleep after the
\* last provider; the probe changes nothing but the health fields of the
\* provider probed, and the monitor is never ended by a probe.
C18_ProbeFailuresAbsorbed ==
    /\ [](monitor.pc \in {"off", "sleep", "probe"})
    /\ [][\A p \in DOMAIN providers :
            ProbeAnswered(p) =>
                /\ monitor' = IF p < Len(providers)
                              THEN [pc |-> "probe", idx |-> p + 1]
                              ELSE [pc |-> "sleep", idx |-> 0]
                /\ UNCHANGED <<settings, health_monitor_started, health_loops, tasks, pending_tasks,
                               running, chat, sweep, transcription, payload>>
                /\ DOMAIN providers' = DOMAIN providers
                /\ \A q \in DOMAIN providers : q # p => providers'[q] = providers[q]
                /\ providers'[p].name = providers[p].name
                /\ providers'[p].models = providers[p].models
                /\ providers'[p].priority = providers[p].priority]_vars

\* The probe of the first provider has raised, nothing else has written to
\* that provider, and the monitor is probing the second provider
C18_Witness ==
    /\ Len(providers) >= 2
    /\ monitor = [pc |-> "probe", idx |-> 2]
    /\ streak[1] = 1
    /\ providers[1].last_error = "probe_exception"

----------------------------------------------------------------------------
(* Properties of the attempt budget *)

\* C20: a chat() call under way comes to its end, and ends as a success or as
\* an exhaustion, never both.  A request that fails counts as a failure
\* whatever the kind of its failure, and the k-th request of a call goes to
\* the candidate and the attempt its position gives: max_attempts attempts
\* for each candidate in turn, cut short only by a success.  So a call makes
\* at most (candidates x max_attempts) requests and an exhausted call has
\* made exactly that many, all of them failures.
C20_AttemptBudget ==
    /\ [](\A c \in Coros :
            LET f == chat[c]
                n == Len(f.calls)
                budget == Len(f.cands) * max_attempts
            IN /\ n <= budget
               /\ f.result \in {"none", "success", "exhausted"}
               /\ f.pc = "returned" <=> f.result # "none"
               /\ \A k \in 1..n :
                     /\ f.calls[k].ok <=> f.calls[k].response = "ok"
                     /\ f.calls[k].provider = f.cands[((k - 1) \div max_attempts) + 1]
                     /\ f.calls[k].attempt = ((k - 1) % max_attempts) + 1
                     /\ k < n => ~f.calls[k].ok
               /\ f.result = "exhausted" =>
                     (n = budget /\ \A k \in 1..n : ~f.calls[k].ok)
               /\ f.result = "success" => (n > 0 /\ f.calls[n].ok)
               /\ (f.result = "none" /\ n > 0) => ~f.calls[n].ok)
    /\ \A c \in Coros :
          (chat[c].pc \in {"request", "sleep"}) ~> (chat[c].pc = "returned")

\* A call has ended exhausted after max_attempts requests to each of two
\* candidates, and every kind of failure was among them
C20_Witness ==
    \E c \in Coros :
        LET f == chat[c]
        IN /\ f.result = "exhausted"
           /\ Len(f.cands) = 2
           /\ Len(f.calls) = 2 * max_attempts
           /\ {f.calls[k].response : k \in DOMAIN f.calls} = Responses \ {"ok"}

----------------------------------------------------------------------------
(* Properties of the waits of chat() *)

\* A request of call c fails in this step
AttemptFails(c) ==
    /\ Len(chat'[c].calls) = Len(chat[c].calls) + 1
    /\ ~chat'[c].calls[Len(chat'[c].calls)].ok

\* C21: after the failure of attempt k of a provider, k below max_attempts,
\* chat() sleeps retry_delay x k (2, then 4) and then makes attempt k + 1 on
\* the same provider; after the failure of the provider's last attempt it
\* does not sleep: the next provider's first request, or the exhaustion,
\* follows in the same step.
C21_LinearBackoff ==
    /\ [](\A c \in Coros :
            chat[c].pc = "sleep" =>
                /\ chat[c].attempt + 1 < max_attempts
                /\ chat[c].delay = retry_delay * (chat[c].attempt + 1)
                /\ chat[c].delay \in {2, 4})
    /\ [][\A c \in Coros :
            LET f == chat[c]
                g == chat'[c]
                k == g.calls[Len(g.calls)].attempt
            IN /\ (AttemptFails(c) /\ k < max_attempts) =>
                     /\ g.pc = "sleep"
                     /\ g.delay = retry_delay * k
                     /\ g.pi = f.pi
                     /\ g.attempt = k - 1
               /\ (AttemptFails(c) /\ k >= max_attempts) =>
                     /\ k = max_attempts
                     /\ now' = now
                     /\ \/ g.pc = "request" /\ g.pi = f.pi + 1 /\ g.attempt = 0
                        \/ g.pc = "returned" /\ g.result = "exhausted"
                                             /\ f.pi = Len(f.cands)
               /\ (f.pc = "sleep" /\ g # f) =>
                     /\ g.pc = "request"
                     /\ g.pi = f.pi
                     /\ g.attempt = f.attempt + 1
                     /\ g.calls = f.calls]_vars

\* A call asleep for 4 after the second failed attempt on its first candidate
C21_Witness ==
    \E c \in Coros :
        /\ chat[c].pc = "sleep"
        /\ chat[c].delay = 4
        /\ chat[c].pi = 1
        /\ Len(chat[c].calls) = 2

----------------------------------------------------------------------------
(* Properties of what a call leaves behind *)

\* C22: no step of a chat() call other than its exhaustion changes the
\* pending-task store or a task in it, whatever failed before: a call that
\* returns a response leaves the store as it was, and a PendingTask is
\* created only by a call that ends exhausted.
C22_SuccessLeavesStore ==
    /\ [][\A c \in Coros :
            (/\ chat'[c] # chat[c]
             /\ chat'[c].pc # "idle"
             /\ chat'[c].result # "exhausted") =>
                (pending_tasks' = pending_tasks /\ tasks' = tasks)]_vars
    /\ [][Len(tasks') > Len(tasks) =>
            \E c \in Coros : chat[c].result = "none" /\ chat'[c].result = "exhausted"]_vars

\* A call has returned a response on the last attempt of its second
\* candidate, after every attempt before it failed, and the store is empty
C22_Witness ==
    \E c \in Coros :
        /\ chat[c].result = "success"
        /\ Len(chat[c].cands) = 2
        /\ Len(chat[c].calls) = 2 * max_attempts
        /\ tasks = <<>>
        /\ pending_tasks = <<>>

----------------------------------------------------------------------------
(* Properties of the registry *)

\* C23: the registry is at all times the list _setup_providers built, as to
\* its length, its order and each provider's name, priority and models: no
\* chat() call, probe, forced recovery, sweep or transcription adds, removes
\* or reorders a provider, and a step changes nothing of a provider but its
\* status, error count and last error.
C23_RegistryFixed ==
    /\ [](LET built == _setup_providers(settings)
          IN /\ Len(providers) = Len(built)
             /\ \A i \in DOMAIN providers :
                   /\ providers[i].name = built[i].name
                   /\ providers[i].priority = built[i].priority
                   /\ providers[i].models = built[i].models
             /\ \A i, j \in DOMAIN providers :
                   i < j => providers[i].priority <= providers[j].priority)
    /\ [][\A i \in DOMAIN providers :
            providers'[i] = [providers[i] EXCEPT !.status = providers'[i].status,
                                                 !.error_count = providers'[i].error_count,
                                                 !.last_error = providers'[i].last_error]]_vars

\* A re-submission by the sweep has forced the recovery of a registry the
\* monitor had taken down, a probe having raised, and a transcription has
\* failed meanwhile
C23_Witness ==
    /\ Len(providers) = 2
    /\ chat[1].nested
    /\ chat[1].forced
    /\ sweep[1].pc = "chat"
    /\ transcription.pc = "raised"
    /\ \E i \in DOMAIN providers : providers[i].last_error = "probe_exception"

\* C24: a provider that is Down is no longer Down only once a probe of it
\* was answered with 200, a chat() attempt on it succeeded or the recovery
\* was forced, all of which make it Healthy; a chat() attempt on it that
\* fails leaves it Down.
C24_DownLeftOnlyByRecovery ==
    [][\A p \in DOMAIN providers :
          (providers[p].status = "down" /\ providers'[p].status # "down") =>
              /\ providers'[p].status = "healthy"
              /\ providers'[p].error_count = 0
              /\ \A c \in Coros : ~AttemptFails(c)]_vars

----------------------------------------------------------------------------
(* Properties of the monitor's start *)

\* C25: there is never more than one health_check_loop task; there is none
\* until chat() is called, the first chat() call creates it and no other
\* step creates one.
C25_OneMonitorLoop ==
    /\ [](/\ health_loops <= 1
          /\ health_monitor_started <=> health_loops = 1
          /\ monitor.pc # "off" <=> health_loops = 1)
    /\ [][/\ health_loops' # health_loops =>
               (health_loops = 0 /\ \E c \in Coros : EntersChat(c))
          /\ \A c \in Coros : EntersChat(c) => health_loops' = 1]_vars

\* Two chat() calls are under way, the monitor is in a round of probes, and
\* one loop has been created
C25_Witness ==
    /\ health_loops = 1
    /\ monitor.pc = "probe"
    /\ \A c \in Coros : chat[c].pc = "request"

----------------------------------------------------------------------------
(* Properties of the store under retries *)

\* C26: a call of retry_pending_tasks() that no other caller's chat() call
\* overlaps returns with no task id in the store that was not there when it
\* began, even when every re-submission failed.
C26_SweepAddsNoTask ==
    \A c \in Coros :
        sweep[c].pc = "done" => Keys(pending_tasks) \subseteq Keys(sweep[c].snap)

\* The re-submission of entry k of sweep s's copy has failed
FailedInSweep(s, k) ==
    \E j \in DOMAIN s.submitted :
        s.submitted[j].key = s.snap[k].key /\ s.submitted[j].result = "exhausted"

\* The counter entry k of sweep s's copy had when the sweep began
AttemptsAtStart(s, k) ==
    tasks[s.snap[k].obj].attempts - (IF FailedInSweep(s, k) THEN 1 ELSE 0)

\* C27: under a total outage and with no new caller, the sweeps empty the
\* store in a bounded number of rounds: a sweep raises the counter of every
\* task it leaves in the store, so when it returns no task in the store has
\* a counter as low as the lowest one the sweep found, and after max_retries
\* sweeps no task is left.
C27_OutageSweepsDrainStore ==
    \A c \in Coros :
        LET s == sweep[c]
        IN (s.pc = "done" /\ s.snap # <<>>) =>
              \A e \in DOMAIN pending_tasks :
                  \E k \in DOMAIN s.snap :
                      tasks[pending_tasks[e].obj].attempts > AttemptsAtStart(s, k)

----------------------------------------------------------------------------
(* Properties of the provider records under interleaving *)

\* C28: at all times and for every provider, the status is Healthy exactly
\* when the error count is below 3: a Degraded or Down provider has a count
\* of 3 or more and a Healthy one a count below 3.
C28_HealthyIffBelowThreshold ==
    \A p \in DOMAIN providers :
        /\ providers[p].status \in {"healthy", "degraded", "down"}
        /\ providers[p].status = "healthy" <=> providers[p].error_count < 3

\* While a call is under way, one provider is Degraded with count 4, a
\* failed attempt having followed the monitor's demotion, and another is
\* Healthy with count 2
C28_Witness ==
    /\ \E c \in Coros : chat[c].pc = "request"
    /\ \E p, q \in DOMAIN providers :
          /\ providers[p].status = "degraded" /\ providers[p].error_count = 4
          /\ providers[q].status = "healthy" /\ providers[q].error_count = 2

\* Call c sends a request in this step: its first, the next attempt after a
\* sleep, or the first to the next candidate
RequestIssued(c) ==
    /\ chat'[c].pc = "request"
    /\ chat[c].pc # "request" \/ chat'[c].pi # chat[c].pi

\* C29: the provider a chat() call sends a request to is not Down when the
\* request is sent, whatever the monitor and other calls have done since the
\* call began.
C29_NoRequestToDownProvider ==
    [][\A c \in Coros :
          RequestIssued(c) =>
              providers'[chat'[c].cands[chat'[c].pi]].status # "down"]_vars

----------------------------------------------------------------------------
(* Properties of the retry budget *)

\* The sweeps that are re-submitting task object o right now
Resubmitting(o) ==
    {c \in Coros : sweep[c].pc = "chat" /\ sweep[c].snap[sweep[c].i].obj = o}

\* The sweep of c passes over a task in this step without re-submitting it
SkipsTask(c) ==
    /\ sweep[c].pc = "loop"
    /\ sweep'[c].pc = "loop"
    /\ sweep'[c].i = sweep[c].i + 1

\* C30: a pending task is re-submitted to chat() at most max_retries - 1
\* times in all: the re-submissions of it that have failed (its counter
\* less the 1 it starts with) and those under way are never more than
\* max_retries - 1.  A sweep that finds the counter at max_retries or above
\* marks the task for removal, does not re-submit it and adds no outcome
\* for it.
C30_RetryBudget ==
    /\ [](\A o \in DOMAIN tasks :
            (tasks[o].attempts - 1) + Cardinality(Resubmitting(o)) <= max_retries - 1)
    /\ [][\A c \in Coros :
            LET s == sweep[c]
                e == s.snap[s.i]
            IN /\ (s.pc = "loop" /\ s.i <= Len(s.snap)
                     /\ sweep'[c] # s /\ tasks[e.obj].attempts >= max_retries) =>
                       SkipsTask(c)
               /\ SkipsTask(c) =>
                     /\ tasks[e.obj].attempts >= max_retries
                     /\ sweep'[c].to_remove = Append(s.to_remove, e.key)
                     /\ sweep'[c].results = s.results
                     /\ chat' = chat
                     /\ tasks' = tasks]_vars

====
